---- MODULE Spec2Model ----
(***************************************************************************)
(* A model of aind_pydantic_codegen.generators: the mapping rules          *)
(* (MappableReferenceField), the blueprint synthesizer                     *)
(* (generate_literal_model, generate_enum_like_class), the reference       *)
(* resolver (solve_import) and the generation pipeline                     *)
(* (ModelGenerator.generate).                                              *)
(*                                                                         *)
(* Representation.  A Python str is a sequence of one-character strings.   *)
(* A dict is a function whose DOMAIN is its key set.  An Optional value is *)
(* a sequence of length 0 (None) or 1.  A Python call that may raise is a  *)
(* record [ok, val, err, arg]: its value, or the exception class and the   *)
(* name the message carries.  Generated code is a sequence of lines, one   *)
(* per directive of the text backend, each carrying its indentation.       *)
(***************************************************************************)
EXTENDS Integers, Sequences, FiniteSets, TLC

VARIABLES
    generators,       \* the ModelGenerator objects, each a record of its attributes
    code_validators,  \* the validator list the caller passes to generate
    code_formatters,  \* the formatter list the caller passes to generate
    last,             \* the outcome of the most recent pipeline operation
    fn_call,          \* arguments of a direct call of a class/static method
    fn_ret,           \* what that call returned or raised
    context_class,    \* the class attributes of GeneratorContext
    contexts,         \* the GeneratorContext instances, each a record of its attributes
    files             \* the file system: the directories and the files' contents

vars == <<generators, code_validators, code_formatters, last, fn_call, fn_ret,
          context_class, contexts, files>>

-----------------------------------------------------------------------------
\* Bounds of the model.

MaxRecords == 2
MaxCalls == 2
MaxValidators == 2
MaxFormatters == 2
MaxRules == 2
MaxHandlers == 2
MaxBlueprints == 2

-----------------------------------------------------------------------------
\* Python values.

None == <<>>
Some(x) == <<x>>
IsNone(o) == Len(o) = 0
Get(o) == o[1]

Ok(v) == [ok |-> TRUE, val |-> v, err |-> "", arg |-> ""]
Raise(e, a) == [ok |-> FALSE, val |-> <<>>, err |-> e, arg |-> a]

SeqsUpTo(S, n) == UNION {[1..k -> S] : k \in 0..n}

RECURSIVE Flatten(_)
Flatten(ss) == IF ss = <<>> THEN <<>> ELSE Head(ss) \o Flatten(Tail(ss))

Min(S) == CHOOSE x \in S : \A y \in S : x <= y

-----------------------------------------------------------------------------
\* helpers.py (Name Normalizer).

Separators == {"_", "-", " "}
Digits == {"9"}
Whitespace == {" ", "\t"}

str_upper(c) ==
    CASE c = "a" -> "A" [] c = "b" -> "B" [] c = "f" -> "F"
      [] c = "o" -> "O" [] c = "r" -> "R" [] c = "x" -> "X"
      [] OTHER -> c

str_lower(c) ==
    CASE c = "A" -> "a" [] c = "B" -> "b" [] c = "F" -> "f"
      [] c = "O" -> "o" [] c = "R" -> "r" [] c = "X" -> "x"
      [] OTHER -> c

\* str.capitalize(): first character upper-cased, the rest lower-cased.
capitalize(s) ==
    [i \in 1..Len(s) |-> IF i = 1 THEN str_upper(s[i]) ELSE str_lower(s[i])]

\* The segments of s between separators, each capitalized, concatenated.
RECURSIVE to_pascal_case(_, _)
to_pascal_case(s, seg) ==
    IF s = <<>> THEN capitalize(seg)
    ELSE IF Head(s) \in Separators
         THEN capitalize(seg) \o to_pascal_case(Tail(s), <<>>)
         ELSE to_pascal_case(Tail(s), Append(seg, Head(s)))

sanitize_class_name(s) ==
    LET lead == IF s # <<>> /\ (s[1] \in Digits \/ s[1] = "_") THEN <<"_">> ELSE <<>>
    IN lead \o to_pascal_case(s, <<>>)

create_enum_key_from_class_name(s) ==
    IF s = <<>> THEN Raise("ValueError", "class_name")
    ELSE LET up == [i \in 1..Len(s) |->
                       IF s[i] \in Separators THEN "_" ELSE str_upper(s[i])]
             lead == IF s[1] \in Digits \/ s[1] = "_" THEN <<"_">> ELSE <<>>
         IN Ok(lead \o up)

\* unindent of a one-line string: its leading whitespace run is removed.
RECURSIVE unindent(_)
unindent(s) ==
    IF s # <<>> /\ Head(s) \in Whitespace THEN unindent(Tail(s)) ELSE s

\* unindent of generated code: the common leading whitespace of the
\* non-blank lines is removed from every line.
unindent_lines(text) ==
    LET nonblank == {i \in 1..Len(text) : text[i].kind # "blank"}
        m == IF nonblank = {} THEN 0
             ELSE Min({text[i].tabs + text[i].spaces : i \in nonblank})
    IN [i \in 1..Len(text) |->
           IF text[i].kind = "blank" THEN text[i]
           ELSE [text[i] EXCEPT !.tabs = @ - m]]

TabWidth == 4

replace_tabs_with_spaces(text) ==
    [i \in 1..Len(text) |->
        [text[i] EXCEPT !.tabs = 0, !.spaces = @ + TabWidth * text[i].tabs]]

\* str(source) of a path-like or plain string source identifier.
normalize_model_source_provenance(source) == <<source.value>>

-----------------------------------------------------------------------------
\* helpers.TemplateHelper (the text backend): one line per directive.

Line(kind, args) == <<[kind |-> kind, tabs |-> 0, spaces |-> 0, args |-> args]>>

indent(text, level) ==
    [i \in 1..Len(text) |-> [text[i] EXCEPT !.tabs = @ + level]]

Blank == Line("blank", <<>>)
file_header(provenance) == Line("file_header", <<provenance>>)
import_statements == Line("import_statements", <<>>)
import_statement(module_name, class_name) ==
    Line("import", <<<<module_name>>, <<class_name>>>>)
class_header(class_name, parent_name) ==
    Line("class_header", <<class_name, parent_name>>)
literal_field(name, value) == Line("literal_field", <<<<name>>, value>>)
model_enum_entry(key, value) == Line("enum_entry", <<key, value>>)
type_all_from_subclasses(parent_name) ==
    Line("type_all_from_subclasses", <<parent_name>>)
type_one_of(parent_name, discriminator) ==
    Line("type_one_of", <<parent_name, <<discriminator>>>>)
abbreviation_map == Line("abbreviation_map", <<>>)

-----------------------------------------------------------------------------
\* MappableReferenceField.

\* A callable given as a handler's function_handle: str.upper.
apply_function_handle(f, v) == [i \in 1..Len(v) |-> str_upper(v[i])]

parsed_source_keys(m) ==
    [i \in 1..Len(m.handlers) |-> m.handlers[i].field]

\* str.format(*args) on a pattern of literal characters and {idx} fields.
format(pattern, args) ==
    IF \E i \in 1..Len(pattern) : ~pattern[i].lit /\ pattern[i].idx >= Len(args)
    THEN Raise("IndexError", "")
    ELSE Ok(Flatten([i \in 1..Len(pattern) |->
                IF pattern[i].lit THEN <<pattern[i].ch>>
                ELSE args[pattern[i].idx + 1]]))

\* The function_handle calls __call__ makes, as the indices of their
\* handlers: the loop that makes them starts once the loop that checks the
\* keys has ended.
function_handle_calls(m, parsed_source) ==
    IF \E i \in 1..Len(m.handlers) : m.handlers[i].field \notin DOMAIN parsed_source
    THEN <<>>
    ELSE SelectSeq([i \in 1..Len(m.handlers) |-> i],
                   LAMBDA i : ~IsNone(m.handlers[i].function_handle))

\* __call__ reading a key the record lacks as the empty string.
MappableReferenceField_call_default(m, parsed_source) ==
    LET keys == parsed_source_keys(m)
        value(k) == IF k \in DOMAIN parsed_source THEN parsed_source[k] ELSE <<>>
        args == [i \in 1..Len(m.handlers) |->
                    IF ~IsNone(m.handlers[i].function_handle)
                    THEN apply_function_handle(
                             Get(m.handlers[i].function_handle),
                             value(keys[Len(keys)]))
                    ELSE value(keys[Len(keys)])]
    IN format(m.pattern, args)

\* __call__: the first loop checks every key and leaves `key` bound to the
\* last one; the second loop reads parsed_source[key] for every handler.
MappableReferenceField_call(m, parsed_source) ==
    LET keys == parsed_source_keys(m)
        missing == {i \in 1..Len(keys) : keys[i] \notin DOMAIN parsed_source}
    IN IF missing # {} THEN Raise("KeyError", keys[Min(missing)])
       ELSE LET key == keys[Len(keys)]
                args == [i \in 1..Len(m.handlers) |->
                            IF ~IsNone(m.handlers[i].function_handle)
                            THEN apply_function_handle(
                                     Get(m.handlers[i].function_handle),
                                     parsed_source[key])
                            ELSE parsed_source[key]]
            IN format(m.pattern, args)

\* hasattr(obj, field_name) on the seed model class.
has_mappable_field(m, obj) == m.field_name \in obj.attrs

-----------------------------------------------------------------------------
\* LiteralModelBlueprint and ModelGenerator.generate_literal_model.

LiteralModelBlueprint(class_name) ==
    [class_name |-> class_name,
     sanitized_class_name |-> sanitize_class_name(class_name),
     code_builder |-> <<>>]

\* Python's == between a str and a list is False; `x in xs` is any(== x).
PyStr(v) == [t |-> "str", v |-> v]
PyList(v) == [t |-> "list", v |-> v]
PyEq(x, y) == x.t = y.t /\ x.v = y.v
PyIn(x, xs) == \E i \in 1..Len(xs) : PyEq(xs[i], x)

try_get_mappable_reference_field(field_name, mappable_references) ==
    IF IsNone(mappable_references) THEN None
    ELSE LET refs == Get(mappable_references)
             hits == {i \in 1..Len(refs) : refs[i].field_name = field_name}
         IN IF hits = {} THEN None ELSE Some(refs[Min(hits)])

\* solve_class_name with a loop that does not stop at the first hint found.
RECURSIVE solve_class_name_last_hint(_, _, _)
solve_class_name_last_hint(class_name, hints, parsed_source) ==
    IF Len(hints) > 0
    THEN solve_class_name_last_hint(
             IF Head(hints) \in DOMAIN parsed_source
             THEN Some(parsed_source[Head(hints)]) ELSE class_name,
             Tail(hints), parsed_source)
    ELSE class_name

\* The while loop that solves for the class name, on a copy of the hints.
RECURSIVE solve_class_name(_, _, _)
solve_class_name(class_name, hints, parsed_source) ==
    IF IsNone(class_name) /\ Len(hints) > 0
    THEN solve_class_name(
             IF Head(hints) \in DOMAIN parsed_source
             THEN Some(parsed_source[Head(hints)]) ELSE None,
             Tail(hints), parsed_source)
    ELSE class_name

\* What is left of a hint list once the loop has popped from it.
RECURSIVE pop_class_name_hints(_, _, _)
pop_class_name_hints(class_name, hints, parsed_source) ==
    IF IsNone(class_name) /\ Len(hints) > 0
    THEN pop_class_name_hints(
             IF Head(hints) \in DOMAIN parsed_source
             THEN Some(parsed_source[Head(hints)]) ELSE None,
             Tail(hints), parsed_source)
    ELSE hints

\* The caller's class_name_hints object after the call: the loop pops from
\* _class_name_hints, which is a copy.
class_name_hints_after(class_name_hints, class_name, parsed_source) ==
    class_name_hints

\* parent_model_fields listing the seed model's fields last to first.
parent_model_fields_reversed(seed_model_type) ==
    LET fields == SelectSeq(seed_model_type.fields, LAMBDA f : f.annotation # "None")
    IN [i \in 1..Len(fields) |-> fields[Len(fields) + 1 - i]]

\* {field_name: annotation.__name__} of the seed model, in declared order.
parent_model_fields(seed_model_type) ==
    SelectSeq(seed_model_type.fields, LAMBDA f : f.annotation # "None")

\* The require_all_fields_mapped loop, from field i on: None, or the error.
RECURSIVE check_all_fields_mapped(_, _, _, _, _)
check_all_fields_mapped(fields, i, parsed_source, seed_model_type, mappable_references) ==
    IF i > Len(fields) THEN Ok(<<>>)
    ELSE LET field_name == fields[i].name
             refs == IF IsNone(mappable_references) THEN <<>>
                     ELSE Get(mappable_references)
             mappable_fields ==
                 [k \in 1..Len(refs) |-> PyList(parsed_source_keys(refs[k]))]
             unmapped == {k \in 1..Len(refs) :
                             ~has_mappable_field(refs[k], seed_model_type)}
         IN IF ~IsNone(mappable_references)
               /\ ~PyIn(PyStr(field_name), mappable_fields)
            THEN Raise("ValueError: not found in mappable fields", field_name)
            ELSE IF field_name \notin DOMAIN parsed_source
            THEN Raise("ValueError: not found in source data", field_name)
            ELSE IF unmapped # {}
            THEN Raise("ValueError: mappable field not found in seed model",
                       refs[Min(unmapped)].field_name)
            ELSE check_all_fields_mapped(fields, i + 1, parsed_source,
                                         seed_model_type, mappable_references)

\* populate_fields with the raw lookup tried before the mapping rule.
RECURSIVE populate_fields_raw_first(_, _, _, _, _, _)
populate_fields_raw_first(fields, i, code, parsed_source, mappable_references, require_all_fields_mapped) ==
    IF i > Len(fields) THEN Ok(code)
    ELSE LET field_name == fields[i].name
             this_mappable ==
                 try_get_mappable_reference_field(field_name, mappable_references)
             called == MappableReferenceField_call(Get(this_mappable), parsed_source)
             raw == parsed_source[field_name]
             emit(param) ==
                 populate_fields_raw_first(fields, i + 1,
                     code \o indent(literal_field(field_name, param), 1),
                     parsed_source, mappable_references, require_all_fields_mapped)
         IN IF field_name \in DOMAIN parsed_source
            THEN emit(IF fields[i].annotation = "str"
                      THEN <<"\"">> \o raw \o <<"\"">> ELSE raw)
            ELSE IF ~IsNone(this_mappable)
            THEN IF called.ok THEN emit(unindent(called.val)) ELSE called
            ELSE IF require_all_fields_mapped
            THEN Raise("ValueError: could not be generated", field_name)
            ELSE populate_fields_raw_first(fields, i + 1, code, parsed_source,
                     mappable_references, require_all_fields_mapped)

\* The loop that populates the value-based fields, from field i on, with the
\* code accumulated so far: the final code_builder, or the error.
RECURSIVE populate_fields(_, _, _, _, _, _)
populate_fields(fields, i, code, parsed_source, mappable_references, require_all_fields_mapped) ==
    IF i > Len(fields) THEN Ok(code)
    ELSE LET field_name == fields[i].name
             this_mappable ==
                 try_get_mappable_reference_field(field_name, mappable_references)
             called == MappableReferenceField_call(Get(this_mappable), parsed_source)
             raw == parsed_source[field_name]
             emit(param) ==
                 populate_fields(fields, i + 1,
                     code \o indent(literal_field(field_name, param), 1),
                     parsed_source, mappable_references, require_all_fields_mapped)
         IN IF ~IsNone(this_mappable)
            THEN IF called.ok THEN emit(unindent(called.val)) ELSE called
            ELSE IF field_name \in DOMAIN parsed_source
            THEN emit(IF fields[i].annotation = "str"
                      THEN <<"\"">> \o raw \o <<"\"">> ELSE raw)
            ELSE IF require_all_fields_mapped
            THEN Raise("ValueError: could not be generated", field_name)
            ELSE populate_fields(fields, i + 1, code, parsed_source,
                                 mappable_references, require_all_fields_mapped)

generate_literal_model(parsed_source, seed_model_type, mappable_references, class_name, class_name_hints, require_all_fields_mapped) ==
    LET hints == IF IsNone(class_name_hints) THEN <<>> ELSE Get(class_name_hints)
        solved == solve_class_name(class_name, hints, parsed_source)
        class_blueprint == LiteralModelBlueprint(Get(solved))
        fields == parent_model_fields(seed_model_type)
        checked == IF require_all_fields_mapped
                   THEN check_all_fields_mapped(fields, 1, parsed_source,
                            seed_model_type, mappable_references)
                   ELSE Ok(<<>>)
        header == indent(class_header(class_blueprint.sanitized_class_name,
                                      <<seed_model_type.name>>), 0)
        populated == populate_fields(fields, 1, header, parsed_source,
                         mappable_references, require_all_fields_mapped)
    IN IF IsNone(solved) THEN Raise("ValueError: no class name", "")
       ELSE IF ~checked.ok THEN checked
       ELSE IF ~populated.ok THEN populated
       ELSE Ok([class_blueprint EXCEPT !.code_builder = populated.val])

-----------------------------------------------------------------------------
\* ModelGenerator.generate_enum_like_class and ModelGenerator.solve_import.

\* enum_entries with every entry inserted right after the class header.
RECURSIVE enum_entries_prepended(_, _, _)
enum_entries_prepended(literal_model_blueprints, i, code) ==
    IF i > Len(literal_model_blueprints) THEN Ok(code)
    ELSE LET class_blueprint == literal_model_blueprints[i]
             key == create_enum_key_from_class_name(class_blueprint.class_name)
         IN IF ~key.ok THEN key
            ELSE enum_entries_prepended(literal_model_blueprints, i + 1,
                     <<Head(code)>>
                     \o indent(model_enum_entry(key.val,
                                 class_blueprint.sanitized_class_name), 1)
                     \o Tail(code))

\* The loop over the blueprints, from blueprint i on: the entries, or the
\* error create_enum_key_from_class_name raised.
RECURSIVE enum_entries(_, _, _)
enum_entries(literal_model_blueprints, i, code) ==
    IF i > Len(literal_model_blueprints) THEN Ok(code)
    ELSE LET class_blueprint == literal_model_blueprints[i]
             key == create_enum_key_from_class_name(class_blueprint.class_name)
         IN IF ~key.ok THEN key
            ELSE enum_entries(literal_model_blueprints, i + 1,
                     code \o indent(model_enum_entry(key.val,
                                 class_blueprint.sanitized_class_name), 1))

generate_enum_like_class(class_name, discriminator, seed_model_type, literal_model_blueprints, render_abbreviation_map) ==
    LET seed_model_name == IF seed_model_type.kind = "str"
                           THEN <<seed_model_type.value>>
                           ELSE <<seed_model_type.name>>
        header == indent(class_header(<<class_name>>, <<>>), 0)
        entries == enum_entries(literal_model_blueprints, 1, header)
    IN IF ~entries.ok THEN entries
       ELSE Ok(entries.val
               \o indent(type_all_from_subclasses(seed_model_name), 1)
               \o indent(type_one_of(seed_model_name, discriminator), 1)
               \o (IF render_abbreviation_map
                   THEN indent(abbreviation_map, 1) ELSE <<>>))

\* solve_import with the default module name used whenever one is given.
solve_import_default_first(typeof, default_module_name) ==
    LET known == typeof.kind \in {"fwd", "type"}
        module_name == IF typeof.kind = "fwd" THEN typeof.module_name
                       ELSE typeof.module
        class_name == IF typeof.kind = "fwd" THEN typeof.class_name
                      ELSE typeof.name
    IN IF ~known THEN Raise("ValueError: typeof must be a type", "")
       ELSE IF module_name = "builtins" THEN Ok(<<>>)
       ELSE IF ~IsNone(default_module_name)
       THEN Ok(import_statement(Get(default_module_name), class_name))
       ELSE IF module_name = "__main__"
       THEN Raise("ValueError: no default module name", "")
       ELSE Ok(import_statement(module_name, class_name))

solve_import(typeof, default_module_name) ==
    LET known == typeof.kind \in {"fwd", "type"}
        module_name == IF typeof.kind = "fwd" THEN typeof.module_name
                       ELSE typeof.module
        class_name == IF typeof.kind = "fwd" THEN typeof.class_name
                      ELSE typeof.name
    IN IF ~known THEN Raise("ValueError: typeof must be a type", "")
       ELSE IF module_name = "builtins" THEN Ok(<<>>)
       ELSE IF module_name = "__main__"
       THEN IF IsNone(default_module_name)
            THEN Raise("ValueError: no default module name", "")
            ELSE Ok(import_statement(Get(default_module_name), class_name))
       ELSE Ok(import_statement(module_name, class_name))

-----------------------------------------------------------------------------
\* CodeValidator.validate, CodeFormatter.format and ModelGenerator.generate.

\* validate(text): (is_valid, error).  What a validator answers is its own
\* business; AstValidator answers (False, SyntaxError) or (True, None).
validate(validator, text) ==
    CASE validator.verdict = "accept" -> [is_valid |-> TRUE, error |-> None]
      [] validator.verdict = "reject_error" ->
             [is_valid |-> FALSE, error |-> Some(validator.error)]
      [] OTHER -> [is_valid |-> FALSE, error |-> None]

\* format(text): the text as rewritten by this formatter.
format_code(formatter, text) == text \o Line("formatted_by", <<<<formatter>>>>)

\* run_validators that asks every validator before it raises the first error.
RECURSIVE run_validators_ask_all(_, _, _, _)
run_validators_ask_all(validators, i, generated_code, log) ==
    IF i > Len(validators)
    THEN LET bad == {k \in 1..Len(validators) :
                        ~validate(validators[k], generated_code).is_valid}
             answer == validate(validators[Min(bad)], generated_code)
         IN [res |-> IF bad = {} THEN Ok(generated_code)
                     ELSE IF ~IsNone(answer.error) THEN Raise(Get(answer.error), "")
                     ELSE Raise("ValueError: Generated code is not valid", ""),
             log |-> log]
    ELSE run_validators_ask_all(validators, i + 1, generated_code,
             Append(log, [call |-> "validate", index |-> i, text |-> generated_code]))

\* The validator loop from validator i on, with the calls logged.
RECURSIVE run_validators(_, _, _, _)
run_validators(validators, i, generated_code, log) ==
    IF i > Len(validators) THEN [res |-> Ok(generated_code), log |-> log]
    ELSE LET answer == validate(validators[i], generated_code)
             logged == Append(log, [call |-> "validate", index |-> i,
                                    text |-> generated_code])
         IN IF ~answer.is_valid
            THEN [res |-> IF ~IsNone(answer.error)
                          THEN Raise(Get(answer.error), "")
                          ELSE Raise("ValueError: Generated code is not valid", ""),
                  log |-> logged]
            ELSE run_validators(validators, i + 1, generated_code, logged)

\* run_formatters with every formatter given the validated text, the last
\* one's output returned.
RECURSIVE run_formatters_unchained(_, _, _, _)
run_formatters_unchained(formatters, i, generated_code, log) ==
    IF i > Len(formatters)
    THEN [res |-> Ok(IF formatters = <<>> THEN generated_code
                     ELSE format_code(formatters[Len(formatters)], generated_code)),
          log |-> log]
    ELSE run_formatters_unchained(formatters, i + 1, generated_code,
             Append(log, [call |-> "format", index |-> i, text |-> generated_code]))

\* The formatter loop from formatter i on, with the calls logged.
RECURSIVE run_formatters(_, _, _, _)
run_formatters(formatters, i, generated_code, log) ==
    IF i > Len(formatters) THEN [res |-> Ok(generated_code), log |-> log]
    ELSE run_formatters(formatters, i + 1,
             format_code(formatters[i], generated_code),
             Append(log, [call |-> "format", index |-> i, text |-> generated_code]))

\* The loop of generate over self._parsed_source, from record i on: every
\* blueprint is appended to self._literal_model_blueprints as it is made.
RECURSIVE synthesize_blueprints(_, _)
synthesize_blueprints(self, i) ==
    IF i > Len(self.parsed_source) THEN [res |-> Ok(<<>>), self |-> self]
    ELSE LET sub == self.parsed_source[i]
             class_blueprint ==
                 generate_literal_model(sub, self.seed_model_type,
                     self.mappable_references, None,
                     Some(self.literal_class_name_hints), FALSE)
             hinted == [self EXCEPT !.literal_class_name_hints =
                           class_name_hints_after(@, None, sub)]
         IN IF ~class_blueprint.ok THEN [res |-> class_blueprint, self |-> hinted]
            ELSE synthesize_blueprints(
                     [hinted EXCEPT !.literal_model_blueprints =
                         Append(@, class_blueprint.val)], i + 1)

\* "\n\n".join(codes)
RECURSIVE join_code(_)
join_code(codes) ==
    IF codes = <<>> THEN <<>>
    ELSE IF Len(codes) = 1 THEN Head(codes)
    ELSE Head(codes) \o Blank \o Blank \o join_code(Tail(codes))

\* The imports of a list of types, in list order: the text, or the first error.
RECURSIVE solve_imports(_, _, _)
solve_imports(types, default_module_name, code) ==
    IF types = <<>> THEN Ok(code)
    ELSE LET one == solve_import(Head(types), default_module_name)
         IN IF ~one.ok THEN one
            ELSE solve_imports(Tail(types), default_module_name, code \o one.val)

\* _generate_mappable_references: one import per element of the set of the
\* rules' types; refs lists that set in the order the set is iterated.
generate_mappable_references(self, refs) ==
    IF IsNone(self.mappable_references) THEN Ok(<<>>)
    ELSE solve_imports(refs, self.default_module_name, <<>>)

\* The orders in which set(typeof of the rules) may be iterated.
RefOrders(self) ==
    LET rules == IF IsNone(self.mappable_references) THEN <<>>
                 ELSE Get(self.mappable_references)
        refs == {rules[i].typeof : i \in 1..Len(rules)}
    IN {o \in [1..Cardinality(refs) -> refs] :
           \A i, j \in DOMAIN o : i # j => o[i] # o[j]}

\* What a generate call leaves: what it returns or raises, the generator
\* afterwards, and the validator and formatter calls it made.
Outcome(res, self, log) == [res |-> res, self |-> self, log |-> log]

\* generate, the formatter loop: validated is what the validator loop left.
generate_format(self, validated, formatters) ==
    IF ~validated.res.ok \/ IsNone(formatters)
    THEN Outcome(validated.res, self, validated.log)
    ELSE LET formatted == run_formatters(Get(formatters), 1,
                              validated.res.val, validated.log)
         IN Outcome(formatted.res, self, formatted.log)

\* generate, the validator loop over the assembled and normalized text.
generate_validate(self, generated_code, validators, formatters) ==
    generate_format(self,
        IF IsNone(validators) THEN [res |-> Ok(generated_code), log |-> <<>>]
        ELSE run_validators(Get(validators), 1, generated_code, <<>>),
        formatters)

\* generate, the assembly: header, imports, preamble and body, joined in this
\* order, then unindent and replace_tabs_with_spaces.
generate_assemble(self, enum, rule_imports, seed_import, more_imports, validators, formatters) ==
    IF ~enum.ok THEN Outcome(enum, self, <<>>)
    ELSE IF ~rule_imports.ok THEN Outcome(rule_imports, self, <<>>)
    ELSE IF ~seed_import.ok THEN Outcome(seed_import, self, <<>>)
    ELSE IF ~more_imports.ok THEN Outcome(more_imports, self, <<>>)
    ELSE generate_validate(self,
             replace_tabs_with_spaces(unindent_lines(
                 file_header(normalize_model_source_provenance(
                     self.data_source_identifier))
                 \o import_statements
                 \o rule_imports.val
                 \o seed_import.val
                 \o more_imports.val
                 \o (IF IsNone(self.additional_preamble) THEN <<>>
                     ELSE Line("preamble", <<Get(self.additional_preamble)>>))
                 \o Blank
                 \o join_code([i \in 1..Len(self.literal_model_blueprints) |->
                        self.literal_model_blueprints[i].code_builder])
                 \o enum.val)),
             validators, formatters)

\* generate, once the loop over the records has run: the aggregate class is
\* built from every blueprint of the list, then the imports are solved.
generate_body(made, validators, formatters, refs) ==
    IF ~made.res.ok THEN Outcome(made.res, made.self, <<>>)
    ELSE generate_assemble(made.self,
             generate_enum_like_class(made.self.enum_like_class_name,
                 made.self.discriminator, made.self.seed_model_type,
                 made.self.literal_model_blueprints,
                 made.self.render_abbreviation_map),
             generate_mappable_references(made.self, refs),
             solve_import(made.self.seed_model_type, made.self.default_module_name),
             solve_imports(IF IsNone(made.self.additional_imports) THEN <<>>
                           ELSE Get(made.self.additional_imports),
                           made.self.default_module_name, <<>>),
             validators, formatters)

\* generate(code_validators, code_formatters); refs is the order in which
\* the set of the rules' types is iterated.
generate(self, validators, formatters, refs) ==
    generate_body(synthesize_blueprints(self, 1), validators, formatters, refs)

-----------------------------------------------------------------------------
\* Inputs of the direct calls.

S_foo == <<"f", "o", "o">>
S_bar == <<"b", "a", "r">>
S_a_b == <<"a", "_", "b">>
S_9a == <<"9", "a">>
S_x == <<"x">>
S_9 == <<"9">>

Names == {S_foo, S_bar, S_a_b, S_9a}

\* The value a record holds under each key it has.
FieldValue ==
    [name |-> S_foo, abbreviation |-> S_bar, a |-> S_x, b |-> S_9]

Keys == {"name", "abbreviation", "a", "b"}
ParsedSources == {[k \in D |-> FieldValue[k]] : D \in SUBSET Keys}

F_a == [name |-> "a", annotation |-> "str"]
F_b == [name |-> "b", annotation |-> "int"]
SeedModel(fields, attrs) ==
    [kind |-> "type", module |-> "tests", name |-> "MyMockType",
     fields |-> fields, attrs |-> attrs]
SeedModel_a_b == SeedModel(<<F_a, F_b>>, {})
SeedModels ==
    {SeedModel_a_b, SeedModel(<<F_b, F_a>>, {}), SeedModel(<<F_a>>, {}),
     SeedModel(<<F_a, F_b>>, {"a", "b"})}

Fld(i) == [lit |-> FALSE, ch |-> "", idx |-> i]
Lit(c) == [lit |-> TRUE, ch |-> c, idx |-> 0]
Pat_0 == <<Fld(0)>>
Pat_0_0 == <<Fld(0), Lit("-"), Fld(0)>>
Pat_0_1 == <<Fld(0), Lit("-"), Fld(1)>>
Pat_sp_0 == <<Lit(" "), Fld(0)>>
Patterns == {Pat_0, Pat_0_0, Pat_0_1}

ForwardClassReference(module_name, class_name) ==
    [kind |-> "fwd", module_name |-> module_name, class_name |-> class_name]
PyType(module, name) ==
    [kind |-> "type", module |-> module, name |-> name, fields |-> <<>>, attrs |-> {}]
NotAType == [kind |-> "other"]

ParsedSourceKeyHandler(field, function_handle) ==
    [field |-> field, function_handle |-> function_handle]
Handlers ==
    {ParsedSourceKeyHandler(k, f) :
        k \in {"a", "b", "name"}, f \in {None, Some("upper")}}

\* A rule as its constructor leaves it (handlers already normalized).
MappableReferenceField(typeof, pattern, field_name, handlers) ==
    [typeof |-> typeof, pattern |-> pattern, field_name |-> field_name,
     handlers |-> handlers]

\* _normalize_parsed_source_keys, from element i on, with the list built so
\* far: a str is wrapped in a handler and ends the loop, a handler is kept,
\* anything else raises ValueError.
RECURSIVE normalize_parsed_source_keys_from(_, _, _)
normalize_parsed_source_keys_from(handlers, i, normalized) ==
    IF i > Len(handlers) THEN Ok(normalized)
    ELSE LET handle == handlers[i]
         IN IF "t" \in DOMAIN handle /\ handle.t = "str"
            THEN Ok(Append(normalized, ParsedSourceKeyHandler(handle.v, None)))
            ELSE IF "field" \in DOMAIN handle
            THEN normalize_parsed_source_keys_from(handlers, i + 1,
                     Append(normalized, handle))
            ELSE Raise("ValueError: Invalid type", handle.t)

\* _normalize_parsed_source_keys: None gives the empty list.
normalize_parsed_source_keys(handlers) ==
    IF IsNone(handlers) THEN Ok(<<>>)
    ELSE normalize_parsed_source_keys_from(Get(handlers), 1, <<>>)

T_ref == ForwardClassReference("pkg.refs", "Ref")
Rule_a == MappableReferenceField(T_ref, Pat_0_0, "a",
              <<ParsedSourceKeyHandler("a", None)>>)
Rule_a_name == MappableReferenceField(T_ref, Pat_sp_0, "a",
                   <<ParsedSourceKeyHandler("name", None)>>)
Rule_b == MappableReferenceField(SeedModel_a_b, Pat_0, "b",
              <<ParsedSourceKeyHandler("a", Some("upper"))>>)
Rule_c == MappableReferenceField(T_ref, Pat_0, "c",
              <<ParsedSourceKeyHandler("b", None)>>)
Rule_b_b == MappableReferenceField(T_ref, Pat_0, "b",
                <<ParsedSourceKeyHandler("b", Some("upper"))>>)
Rules == {Rule_a, Rule_a_name, Rule_b, Rule_c}

HintLists ==
    {None, Some(<<>>), Some(<<"abbreviation", "name">>),
     Some(<<"name", "abbreviation">>)}

LiteralModelCalls ==
    [fn : {"generate_literal_model"},
     parsed_source : ParsedSources,
     seed_model_type : SeedModels,
     mappable_references : {None} \cup {Some(r) : r \in SeqsUpTo(Rules, MaxRules)},
     class_name : {None, Some(S_a_b)},
     class_name_hints : HintLists,
     hints_given : HintLists,
     require_all_fields_mapped : BOOLEAN]

RuleCalls ==
    [fn : {"MappableReferenceField_call"},
     rule : {MappableReferenceField(T_ref, p, "a", h) :
                p \in Patterns, h \in SeqsUpTo(Handlers, MaxHandlers)},
     parsed_source : ParsedSources]

EnumCalls ==
    [fn : {"generate_enum_like_class"},
     class_name : {"Things"},
     discriminator : {"name"},
     seed_model_type : {SeedModel_a_b, [kind |-> "str", value |-> "MyMockType"]},
     literal_model_blueprints :
         SeqsUpTo({LiteralModelBlueprint(n) : n \in Names}, MaxBlueprints),
     render_abbreviation_map : BOOLEAN]

Modules == {"builtins", "__main__", "tests", "pkg.refs"}
ImportCalls ==
    [fn : {"solve_import"},
     typeof : {PyType(m, n) : m \in Modules, n \in {"int", "LocalClass", "Ref"}}
              \cup {ForwardClassReference(m, n) :
                       m \in Modules, n \in {"int", "LocalClass", "Ref"}}
              \cup {NotAType},
     default_module_name : {None, Some("pkg.generators"), Some("builtins")}]

\* The constructor's calls: parsed_source_keys_handlers is None or a list
\* of field names, handlers and objects that are neither.
ConstructorCalls ==
    LET raw == {PyStr("a"), PyStr("b"), ParsedSourceKeyHandler("a", None),
                ParsedSourceKeyHandler("b", Some("upper")),
                [t |-> "int", v |-> "5"]}
    IN [fn : {"MappableReferenceField"},
        parsed_source_keys_handlers :
            {None} \cup {Some(h) : h \in SeqsUpTo(raw, MaxHandlers)}]

-----------------------------------------------------------------------------
\* The state of the pipeline operations when only direct calls are made.

NoGenerators == <<>>
NoOperation == [op |-> "none"]

\* GeneratorContext as the class statement leaves it, no instance made, and
\* an empty file system.
registry_vars == <<context_class, contexts, files>>
NoFiles == [dirs |-> {}, content |-> <<>>]
NoRegistry ==
    /\ context_class = [_self |-> None, _initialized |-> FALSE]
    /\ contexts = <<>>
    /\ files = NoFiles

InitFn ==
    /\ generators = NoGenerators
    /\ code_validators = None
    /\ code_formatters = None
    /\ last = NoOperation
    /\ fn_ret = None
    /\ NoRegistry
    /\ \/ fn_call \in {c \in LiteralModelCalls : c.hints_given = c.class_name_hints}
       \/ fn_call \in RuleCalls
       \/ fn_call \in EnumCalls
       \/ fn_call \in ImportCalls
       \/ fn_call \in ConstructorCalls

CallGenerateLiteralModel ==
    /\ fn_call.fn = "generate_literal_model"
    /\ IsNone(fn_ret)
    /\ fn_ret' = Some(generate_literal_model(
                     fn_call.parsed_source, fn_call.seed_model_type,
                     fn_call.mappable_references, fn_call.class_name,
                     fn_call.class_name_hints,
                     fn_call.require_all_fields_mapped))
    /\ fn_call' = [fn_call EXCEPT !.class_name_hints =
                      IF IsNone(@) THEN @
                      ELSE Some(class_name_hints_after(Get(@),
                               fn_call.class_name, fn_call.parsed_source))]
    /\ UNCHANGED <<generators, code_validators, code_formatters, last, registry_vars>>

CallMappableReferenceField ==
    /\ fn_call.fn = "MappableReferenceField_call"
    /\ IsNone(fn_ret)
    /\ fn_ret' = Some(MappableReferenceField_call(fn_call.rule, fn_call.parsed_source))
    /\ UNCHANGED <<generators, code_validators, code_formatters, last, fn_call,
                   registry_vars>>

CallGenerateEnumLikeClass ==
    /\ fn_call.fn = "generate_enum_like_class"
    /\ IsNone(fn_ret)
    /\ fn_ret' = Some(generate_enum_like_class(
                     fn_call.class_name, fn_call.discriminator,
                     fn_call.seed_model_type, fn_call.literal_model_blueprints,
                     fn_call.render_abbreviation_map))
    /\ UNCHANGED <<generators, code_validators, code_formatters, last, fn_call,
                   registry_vars>>

CallSolveImport ==
    /\ fn_call.fn = "solve_import"
    /\ IsNone(fn_ret)
    /\ fn_ret' = Some(solve_import(fn_call.typeof, fn_call.default_module_name))
    /\ UNCHANGED <<generators, code_validators, code_formatters, last, fn_call,
                   registry_vars>>

\* MappableReferenceField(typeof, pattern, field_name, handlers): the rule,
\* or the error its normalization raises.
NewMappableReferenceField ==
    /\ fn_call.fn = "MappableReferenceField"
    /\ IsNone(fn_ret)
    /\ LET normalized ==
               normalize_parsed_source_keys(fn_call.parsed_source_keys_handlers)
       IN fn_ret' = Some(IF normalized.ok
                         THEN Ok(MappableReferenceField(T_ref, Pat_0, "a",
                                                        normalized.val))
                         ELSE normalized)
    /\ UNCHANGED <<generators, code_validators, code_formatters, last, fn_call,
                   registry_vars>>

NextFn ==
    \/ NewMappableReferenceField
    \/ CallGenerateLiteralModel
    \/ CallMappableReferenceField
    \/ CallGenerateEnumLikeClass
    \/ CallSolveImport

SpecFn == InitFn /\ [][NextFn]_vars

-----------------------------------------------------------------------------
\* The generation pipeline: ModelGenerator objects and calls of generate.

DEFAULT_LITERAL_CLASS_NAME_HINTS == <<"abbreviation", "name">>

\* ModelGenerator.__init__: the parser's records are stored, the blueprint
\* list starts empty.  calls counts the generate calls made on the object.
ModelGenerator(class_name, seed_model_type, parsed_source, literal_class_name_hints, additional_imports, mappable_references, default_module_name) ==
    [enum_like_class_name |-> class_name,
     seed_model_type |-> seed_model_type,
     data_source_identifier |-> [kind |-> "str", value |-> "things.csv"],
     discriminator |-> "name",
     render_abbreviation_map |-> TRUE,
     literal_class_name_hints |->
         IF IsNone(literal_class_name_hints) \/ Get(literal_class_name_hints) = <<>>
         THEN DEFAULT_LITERAL_CLASS_NAME_HINTS
         ELSE Get(literal_class_name_hints),
     additional_imports |-> additional_imports,
     additional_preamble |-> None,
     mappable_references |-> mappable_references,
     default_module_name |-> default_module_name,
     parsed_source |-> parsed_source,
     literal_model_blueprints |-> <<>>,
     calls |-> 0]

Rec_foo == [name |-> S_foo, a |-> S_x, b |-> S_9]
Rec_bar == [abbreviation |-> S_bar, name |-> S_a_b, a |-> S_x]
Rec_anon == [a |-> S_x, b |-> S_9]
Records == {Rec_foo, Rec_bar, Rec_anon}

RuleLists == {None, Some(<<Rule_a, Rule_b>>), Some(<<Rule_b_b>>)}

LocalClass == PyType("__main__", "LocalClass")
ImportSettings ==
    {[additional_imports |-> Some(<<LocalClass, T_ref>>),
      default_module_name |-> Some("pkg.generators")],
     [additional_imports |-> Some(<<LocalClass>>), default_module_name |-> None]}

\* The generators over every record list, with the rules and imports given.
ModelGeneratorsWith(rules, imports) ==
    {ModelGenerator("Things", SeedModel_a_b, ps, None, imports.additional_imports,
                    rules, imports.default_module_name) :
        ps \in SeqsUpTo(Records, MaxRecords)}

ModelGenerators ==
    UNION {ModelGeneratorsWith(rules, i) : rules \in RuleLists, i \in ImportSettings}

V_accept == [name |-> "AstValidator", verdict |-> "accept", error |-> ""]
V_reject == [name |-> "AstValidator", verdict |-> "reject_error", error |-> "SyntaxError"]
V_reject_none == [name |-> "Custom", verdict |-> "reject_none", error |-> ""]
Validators == {V_accept, V_reject, V_reject_none}
Formatters == {"BlackFormatter", "ISortFormatter"}

ValidatorLists == {None} \cup {Some(v) : v \in SeqsUpTo(Validators, MaxValidators)}
FormatterLists == {None} \cup {Some(f) : f \in SeqsUpTo(Formatters, MaxFormatters)}

\* One generator, constructed; the caller's validator and formatter lists.
\* Every pair of lists is tried on the generators without rules and with
\* resolvable imports, every setting of rules and imports with at most one
\* validator and one formatter.
Init ==
    /\ \/ /\ generators \in
                {<<g>> : g \in ModelGeneratorsWith(None,
                     [additional_imports |-> Some(<<LocalClass, T_ref>>),
                      default_module_name |-> Some("pkg.generators")])}
          /\ code_validators \in ValidatorLists
          /\ code_formatters \in FormatterLists
       \/ /\ generators \in {<<g>> : g \in ModelGenerators}
          /\ code_validators \in {None, Some(<<V_accept>>)}
          /\ code_formatters \in {None, Some(<<"BlackFormatter">>)}
    /\ last = NoOperation
    /\ fn_call = [fn |-> "none"]
    /\ fn_ret = None
    /\ NoRegistry

\* generators[g].generate(code_validators, code_formatters)
Generate(g) ==
    /\ generators[g].calls < MaxCalls
    /\ \E refs \in RefOrders(generators[g]) :
          LET out == generate(generators[g], code_validators, code_formatters, refs)
          IN /\ generators' = [generators EXCEPT
                                  ![g] = [out.self EXCEPT !.calls = @ + 1]]
             /\ last' = [op |-> "generate", g |-> g,
                         res |-> out.res, log |-> out.log,
                         blueprints_before |->
                             Len(generators[g].literal_model_blueprints)]
    /\ UNCHANGED <<code_validators, code_formatters, fn_call, fn_ret, registry_vars>>

Next == \E g \in DOMAIN generators : Generate(g)

Spec == Init /\ [][Next]_vars

-----------------------------------------------------------------------------
\* GeneratorContext: the class, its instances and the operations on them.

\* An object as object.__new__ makes it: no instance attribute is set, so
\* _initialized and _self are read from the class.
GeneratorContextObject ==
    [_generators |-> <<>>, code_validators |-> <<>>, code_formatters |-> <<>>,
     _initialized |-> None, _self |-> "unset"]

\* self._initialized: the instance attribute when there is one, else the
\* class attribute.
initialized(self, cls) ==
    IF IsNone(self._initialized) THEN cls._initialized ELSE Get(self._initialized)

\* __new__: the instance the class holds, made first when it holds none.
GeneratorContext_new(cls, objs) ==
    IF IsNone(cls._self)
    THEN [cls |-> [cls EXCEPT !._self = Some(Len(objs) + 1)],
          objs |-> Append(objs, GeneratorContextObject),
          id |-> Len(objs) + 1]
    ELSE [cls |-> cls, objs |-> objs, id |-> Get(cls._self)]

\* `x or []`
or_empty(x) == IF IsNone(x) THEN <<>> ELSE Get(x)

\* __init__ with every acquisition initializing the instance again.
GeneratorContext_init_always(self, cls, validators, formatters) ==
    [self EXCEPT !._generators = <<>>,
                 !.code_validators = or_empty(validators),
                 !.code_formatters = or_empty(formatters),
                 !._initialized = Some(TRUE)]

\* __init__
GeneratorContext_init(self, cls, validators, formatters) ==
    IF ~initialized(self, cls)
    THEN [self EXCEPT !._generators = <<>>,
                      !.code_validators = or_empty(validators),
                      !.code_formatters = or_empty(formatters),
                      !._initialized = Some(TRUE)]
    ELSE self

\* __exit__ that clears the generators and leaves the instance initialized.
GeneratorContext_exit_initialized(self) ==
    [self EXCEPT !._generators = <<>>, !._self = "None"]

\* __exit__: the three assignments are to attributes of the instance.
GeneratorContext_exit(self) ==
    [self EXCEPT !._generators = <<>>,
                 !._self = "None",
                 !._initialized = Some(FALSE)]

WrappedModelGenerator(model_generator, target_path) ==
    [model_generator |-> model_generator, target_path |-> target_path]

add_generator(self, generator, file_name) ==
    [self EXCEPT !._generators =
        Append(@, WrappedModelGenerator(generator, file_name))]

\* remove_generator that compares the generators' attributes, not the objects.
remove_generator_equal_attributes(self, generator, heap) ==
    [self EXCEPT !._generators =
        SelectSeq(@, LAMBDA g : heap[g.model_generator] # heap[generator])]

\* remove_generator: ModelGenerator defines no __eq__, so != compares the
\* objects, which the heap index stands for.
remove_generator(self, generator, heap) ==
    [self EXCEPT !._generators =
        SelectSeq(@, LAMBDA g : g.model_generator # generator)]

\* generate_all_next that leaves out the text of a generator whose generate
\* failed and goes on with the next pair.
RECURSIVE generate_all_skip_failed(_, _, _, _, _, _, _, _)
generate_all_skip_failed(self, i, heap, results, calls, orders, g, out) ==
    IF i >= Len(self._generators)
    THEN [res |-> Ok(IF out.res.ok THEN Append(results, out.res.val) ELSE results),
          heap |-> [heap EXCEPT ![g] = [out.self EXCEPT !.calls = @ + 1]],
          calls |-> Append(calls, [g |-> g, ok |-> out.res.ok, log |-> out.log])]
    ELSE generate_all_skip_failed(self, i + 1,
             [heap EXCEPT ![g] = [out.self EXCEPT !.calls = @ + 1]],
             IF out.res.ok THEN Append(results, out.res.val) ELSE results,
             Append(calls, [g |-> g, ok |-> out.res.ok, log |-> out.log]),
             orders,
             self._generators[i + 1].model_generator,
             generate([heap EXCEPT ![g] = out.self]
                          [self._generators[i + 1].model_generator],
                      Some(self.code_validators), Some(self.code_formatters),
                      orders[self._generators[i + 1].model_generator]))

\* generate_all: the list comprehension over self._generators, from pair i
\* on.  It gives the list of the texts, or the error of the generate call
\* that failed, the generators as the calls leave them, and the calls made.
RECURSIVE generate_all_from(_, _, _, _, _, _)
RECURSIVE generate_all_next(_, _, _, _, _, _, _, _)
generate_all_next(self, i, heap, results, calls, orders, g, out) ==
    IF ~out.res.ok
    THEN [res |-> out.res,
          heap |-> [heap EXCEPT ![g] = [out.self EXCEPT !.calls = @ + 1]],
          calls |-> Append(calls, [g |-> g, ok |-> FALSE, log |-> out.log])]
    ELSE generate_all_from(self, i + 1,
             [heap EXCEPT ![g] = [out.self EXCEPT !.calls = @ + 1]],
             Append(results, out.res.val),
             Append(calls, [g |-> g, ok |-> TRUE, log |-> out.log]),
             orders)

generate_all_from(self, i, heap, results, calls, orders) ==
    IF i > Len(self._generators)
    THEN [res |-> Ok(results), heap |-> heap, calls |-> calls]
    ELSE generate_all_next(self, i, heap, results, calls, orders,
             self._generators[i].model_generator,
             generate(heap[self._generators[i].model_generator],
                      Some(self.code_validators), Some(self.code_formatters),
                      orders[self._generators[i].model_generator]))

generate_all(self, heap, orders) ==
    generate_all_from(self, 1, heap, <<>>, <<>>, orders)

\* A path is (directory, file name).  open(path, "w") creates the file or
\* truncates it; it fails when the directory does not exist.
Path(folder, name) == <<folder, name>>
open_w(fs, path) == [fs EXCEPT !.content = (path :> <<>>) @@ @]
file_write(fs, path, text) == [fs EXCEPT !.content = (path :> text) @@ @]

\* The generate calls among the events of a write: one, or none.
generate_calls(events) ==
    IF \E k \in DOMAIN events : events[k] = "generate" THEN 1 ELSE 0

\* ModelGenerator.write, once the file is open: out is what the generate
\* call in the argument of f.write left.  The with statement closes the file
\* when the block is left, by return or by exception.
write_opened(output_path, fs, out) ==
    IF ~out.res.ok
    THEN [res |-> out.res, self |-> out.self, fs |-> open_w(fs, output_path),
          events |-> <<"open", "generate", "close">>]
    ELSE [res |-> Ok(<<>>), self |-> out.self,
          fs |-> file_write(open_w(fs, output_path), output_path, out.res.val),
          events |-> <<"open", "generate", "write", "close">>]

\* ModelGenerator.write: the with statement opens the file, then the argument
\* of f.write is evaluated, which is the generate call.
write(self, output_path, validators, formatters, fs, refs) ==
    IF output_path[1] \notin fs.dirs
    THEN [res |-> Raise("FileNotFoundError", ""), self |-> self, fs |-> fs,
          events |-> <<"open">>]
    ELSE write_opened(output_path, fs, generate(self, validators, formatters, refs))

\* str.lower on the aggregate class names in use.
lower(name) ==
    CASE name = "Things" -> "things"
      [] name = "Species" -> "species"
      [] OTHER -> name

\* The file name write_all gives a pair: its path when it has one that is
\* truthy, else the lower-cased aggregate class name plus ".py".
target_path(pair, heap) ==
    IF ~IsNone(pair.target_path) /\ Get(pair.target_path) # <<>>
    THEN Get(pair.target_path)
    ELSE <<lower(heap[pair.model_generator].enum_like_class_name), ".py">>

\* write_all: the loop over self._generators, from pair i on.  It gives the
\* generators and the files as the writes leave them, and the writes made.
RECURSIVE write_all_from(_, _, _, _, _, _, _)
RECURSIVE write_all_next(_, _, _, _, _, _, _, _, _)
write_all_next(self, i, output_folder, heap, calls, orders, g, path, out) ==
    IF ~out.res.ok
    THEN [res |-> out.res,
          heap |-> [heap EXCEPT ![g] =
                       [out.self EXCEPT !.calls = @ + generate_calls(out.events)]],
          fs |-> out.fs,
          calls |-> Append(calls, [g |-> g, path |-> path, ok |-> FALSE])]
    ELSE write_all_from(self, i + 1, output_folder,
             [heap EXCEPT ![g] = [out.self EXCEPT !.calls = @ + 1]],
             out.fs,
             Append(calls, [g |-> g, path |-> path, ok |-> TRUE]),
             orders)

write_all_from(self, i, output_folder, heap, fs, calls, orders) ==
    IF i > Len(self._generators)
    THEN [res |-> Ok(<<>>), heap |-> heap, fs |-> fs, calls |-> calls]
    ELSE write_all_next(self, i, output_folder, heap, calls, orders,
             self._generators[i].model_generator,
             Path(output_folder, target_path(self._generators[i], heap)),
             write(heap[self._generators[i].model_generator],
                   Path(output_folder, target_path(self._generators[i], heap)),
                   Some(self.code_validators), Some(self.code_formatters),
                   fs, orders[self._generators[i].model_generator]))

\* os.makedirs(output_folder, exist_ok=True)
makedirs(fs, folder) == [fs EXCEPT !.dirs = @ \cup {folder}]

write_all(self, output_folder, create_dir, heap, fs, orders) ==
    write_all_from(self, 1, output_folder, heap,
                   IF create_dir THEN makedirs(fs, output_folder) ELSE fs,
                   <<>>, orders)

-----------------------------------------------------------------------------
\* The registry: one GeneratorContext class, the generators handed to it,
\* and the files the generators write.

MaxPairs == 2

\* Two generators with the same attributes and one whose second record has
\* no name.
G_things == ModelGenerator("Things", SeedModel_a_b, <<Rec_foo>>, None, None, None,
                           Some("pkg.generators"))
G_species == ModelGenerator("Species", SeedModel_a_b, <<Rec_bar, Rec_anon>>, None,
                            None, None, Some("pkg.generators"))
RegistryGenerators == <<G_things, G_things, G_species>>

\* The (code_validators, code_formatters) arguments of an acquisition.
ContextArguments ==
    {<<None, None>>, <<None, Some(<<"BlackFormatter">>)>>,
     <<Some(<<V_accept>>), None>>,
     <<Some(<<V_reject>>), Some(<<"BlackFormatter">>)>>}
FileNames == {None, Some(<<"out.py">>)}
Folders == {"out"}
OldContent == Line("written_before", <<>>)
InitialFiles ==
    {NoFiles,
     [dirs |-> {"out"}, content |-> (Path("out", <<"out.py">>) :> OldContent)]}

\* Whether a scope was exited since the registry was last acquired.
Exited == "exited" \in DOMAIN last /\ last.exited

\* The orders in which each generator's set of rule types may be iterated.
Orders ==
    {o \in [DOMAIN generators ->
               UNION {RefOrders(generators[g]) : g \in DOMAIN generators}] :
        \A g \in DOMAIN generators : o[g] \in RefOrders(generators[g])}

\* The generate calls made so far on all the generators.
RECURSIVE TotalCalls(_)
TotalCalls(heap) ==
    IF heap = <<>> THEN 0 ELSE Head(heap).calls + TotalCalls(Tail(heap))

\* The generators are constructed, the registry was never acquired.
InitRegistry ==
    /\ generators = RegistryGenerators
    /\ code_validators = None
    /\ code_formatters = None
    /\ last = NoOperation
    /\ fn_call = [fn |-> "none"]
    /\ fn_ret = None
    /\ NoRegistry

\* GeneratorContext(code_validators, code_formatters): __new__, then __init__
\* on the object __new__ returned.
Acquire ==
    \E arguments \in ContextArguments :
        LET made == GeneratorContext_new(context_class, contexts)
            self == GeneratorContext_init(made.objs[made.id], made.cls,
                                          arguments[1], arguments[2])
        IN /\ context_class' = made.cls
           /\ contexts' = [made.objs EXCEPT ![made.id] = self]
           /\ last' = [op |-> "GeneratorContext", ctx |-> made.id,
                       code_validators |-> arguments[1],
                       code_formatters |-> arguments[2],
                       was |-> contexts, after_exit |-> Exited,
                       exited |-> FALSE]
           /\ UNCHANGED <<generators, code_validators, code_formatters,
                          fn_call, fn_ret, files>>

\* __enter__ returns self; it is called on the registry just acquired.
Enter(c) ==
    /\ last.op = "GeneratorContext" /\ last.ctx = c
    /\ last' = [op |-> "__enter__", ctx |-> c, exited |-> Exited]
    /\ UNCHANGED <<generators, code_validators, code_formatters, fn_call, fn_ret,
                   registry_vars>>

Exit(c) ==
    /\ contexts' = [contexts EXCEPT ![c] = GeneratorContext_exit(@)]
    /\ last' = [op |-> "__exit__", ctx |-> c, exited |-> TRUE]
    /\ UNCHANGED <<generators, code_validators, code_formatters, fn_call, fn_ret,
                   context_class, files>>

AddGenerator(c, g) ==
    /\ Len(contexts[c]._generators) < MaxPairs
    /\ \E file_name \in FileNames :
          /\ contexts' = [contexts EXCEPT ![c] = add_generator(@, g, file_name)]
          /\ last' = [op |-> "add_generator", ctx |-> c, g |-> g,
                      file_name |-> file_name, was |-> contexts[c],
                      exited |-> Exited]
    /\ UNCHANGED <<generators, code_validators, code_formatters, fn_call, fn_ret,
                   context_class, files>>

RemoveGenerator(c, g) ==
    /\ contexts' = [contexts EXCEPT ![c] = remove_generator(@, g, generators)]
    /\ last' = [op |-> "remove_generator", ctx |-> c, g |-> g,
                was |-> contexts[c], exited |-> Exited]
    /\ UNCHANGED <<generators, code_validators, code_formatters, fn_call, fn_ret,
                   context_class, files>>

GenerateAll(c) ==
    /\ TotalCalls(generators) + Len(contexts[c]._generators) <= MaxCalls
    /\ \E orders \in Orders :
          LET out == generate_all(contexts[c], generators, orders)
          IN /\ generators' = out.heap
             /\ last' = [op |-> "generate_all", ctx |-> c, res |-> out.res,
                         calls |-> out.calls, exited |-> Exited]
    /\ UNCHANGED <<code_validators, code_formatters, fn_call, fn_ret,
                   registry_vars>>

\* generators[g].write(path) with no validators and no formatters.
Write(g) ==
    /\ TotalCalls(generators) < MaxCalls
    /\ \E folder \in Folders, name \in FileNames \ {None}, refs \in RefOrders(generators[g]) :
          LET out == write(generators[g], Path(folder, Get(name)), None, None,
                           files, refs)
          IN /\ generators' = [generators EXCEPT ![g] =
                                  [out.self EXCEPT !.calls =
                                      @ + generate_calls(out.events)]]
             /\ files' = out.fs
             /\ last' = [op |-> "write", g |-> g, path |-> Path(folder, Get(name)),
                         res |-> out.res, events |-> out.events,
                         files_before |-> files, exited |-> Exited]
    /\ UNCHANGED <<code_validators, code_formatters, fn_call, fn_ret,
                   context_class, contexts>>

WriteAll(c) ==
    /\ TotalCalls(generators) + Len(contexts[c]._generators) <= MaxCalls
    /\ \E folder \in Folders, create_dir \in BOOLEAN, orders \in Orders :
          LET out == write_all(contexts[c], folder, create_dir, generators,
                               files, orders)
          IN /\ generators' = out.heap
             /\ files' = out.fs
             /\ last' = [op |-> "write_all", ctx |-> c, res |-> out.res,
                         calls |-> out.calls, folder |-> folder,
                         files_before |-> files, exited |-> Exited]
    /\ UNCHANGED <<code_validators, code_formatters, fn_call, fn_ret,
                   context_class, contexts>>

NextRegistry ==
    \/ Acquire
    \/ \E c \in DOMAIN contexts : Enter(c)
    \/ \E c \in DOMAIN contexts : Exit(c)
    \/ \E c \in DOMAIN contexts, g \in DOMAIN generators : AddGenerator(c, g)
    \/ \E c \in DOMAIN contexts, g \in DOMAIN generators : RemoveGenerator(c, g)

SpecRegistry == InitRegistry /\ [][NextRegistry]_vars

\* The batch operations, on a registry that was acquired and filled.
RECURSIVE with_generators(_, _)
with_generators(self, pairs) ==
    IF pairs = <<>> THEN self
    ELSE with_generators(add_generator(self, Head(pairs)[1], Head(pairs)[2]),
                         Tail(pairs))

FilledContexts ==
    {with_generators(
         GeneratorContext_init(GeneratorContextObject,
             [_self |-> Some(1), _initialized |-> FALSE],
             arguments[1], arguments[2]),
         pairs) :
        arguments \in ContextArguments,
        pairs \in SeqsUpTo((DOMAIN RegistryGenerators) \X FileNames, MaxPairs)}

InitBatch ==
    /\ generators = RegistryGenerators
    /\ code_validators = None
    /\ code_formatters = None
    /\ last = NoOperation
    /\ fn_call = [fn |-> "none"]
    /\ fn_ret = None
    /\ context_class = [_self |-> Some(1), _initialized |-> FALSE]
    /\ contexts \in {<<self>> : self \in FilledContexts}
    /\ files \in InitialFiles

NextBatch ==
    \/ \E c \in DOMAIN contexts : GenerateAll(c)
    \/ \E g \in DOMAIN generators : Write(g)
    \/ \E c \in DOMAIN contexts : WriteAll(c)

SpecBatch == InitBatch /\ [][NextBatch]_vars

-----------------------------------------------------------------------------
\* Vocabulary of the properties of the direct calls.

Called(fn) == fn_call.fn = fn /\ ~IsNone(fn_ret)
Ret == Get(fn_ret)

\* The values assigned to field f by the literal_field lines of code.
Assigned(code, f) ==
    {i \in 1..Len(code) :
        code[i].kind = "literal_field" /\ code[i].args[1] = <<f>>}
LinesOfKind(code, kind) == {i \in 1..Len(code) : code[i].kind = kind}

RulesGiven == IF IsNone(fn_call.mappable_references) THEN <<>>
              ELSE Get(fn_call.mappable_references)
RulesFor(f) == {i \in 1..Len(RulesGiven) : RulesGiven[i].field_name = f}
SchemaFields == {fn_call.seed_model_type.fields[i].name :
                    i \in 1..Len(fn_call.seed_model_type.fields)}
Covered(f) == RulesFor(f) # {} \/ f \in DOMAIN fn_call.parsed_source
Quoted(v) == <<"\"">> \o v \o <<"\"">>

\* The name the record is to get: the explicit one, else the value under
\* the first hint, in the order given, that is a key of the record.
HintsGiven == IF IsNone(fn_call.hints_given) THEN <<>> ELSE Get(fn_call.hints_given)
HintHits == {i \in 1..Len(HintsGiven) : HintsGiven[i] \in DOMAIN fn_call.parsed_source}
ExpectedName ==
    IF ~IsNone(fn_call.class_name) THEN fn_call.class_name
    ELSE IF HintHits = {} THEN None
    ELSE Some(fn_call.parsed_source[HintsGiven[Min(HintHits)]])

-----------------------------------------------------------------------------
-----------------------------------------------------------------------------
\* Vocabulary of the properties of the pipeline.

Generated == last.op = "generate"
Self == generators[last.g]
ValidatorsGiven == IF IsNone(code_validators) THEN <<>> ELSE Get(code_validators)
FormattersGiven == IF IsNone(code_formatters) THEN <<>> ELSE Get(code_formatters)
Rejecting == {i \in 1..Len(ValidatorsGiven) : ValidatorsGiven[i].verdict # "accept"}
ValidatorErrors == {"SyntaxError", "ValueError: Generated code is not valid"}
\* The call reached the validators: it returned, or a validator's error came out.
ReachedValidators == Generated /\ (last.res.ok \/ last.res.err \in ValidatorErrors)
CallsOf(kind) == SelectSeq(last.log, LAMBDA c : c.call = kind)
\* The record classes of a text: the class headers that name the seed model.
RecordClasses(text) ==
    {i \in 1..Len(text) : text[i].kind = "class_header"
                          /\ text[i].args[2] = <<Self.seed_model_type.name>>}
Unformatted(text) == LinesOfKind(text, "formatted_by") = {}

\* C1: after a generate call that returns, the blueprint list is as long as
\* the parsed records and the text holds one record class and one enum entry
\* per parsed record, whatever calls were made on the generator before.
C1_OneBlueprintPerRecord ==
    (Generated /\ last.res.ok) =>
        /\ Len(Self.literal_model_blueprints) = Len(Self.parsed_source)
        /\ Cardinality(RecordClasses(last.res.val)) = Len(Self.parsed_source)
        /\ Cardinality(LinesOfKind(last.res.val, "enum_entry")) = Len(Self.parsed_source)

\* C2: generate asks the validators in list order, each about the assembled
\* and not yet formatted text; at the first that rejects it raises that
\* validator's error, or ValueError when it gave none, asks no later
\* validator, calls no formatter and returns no text.
C2_ValidatorsFailFast ==
    ReachedValidators =>
        LET asked == CallsOf("validate")
            stop == IF Rejecting = {} THEN Len(ValidatorsGiven) ELSE Min(Rejecting)
        IN /\ Len(asked) = stop
           /\ \A i \in 1..stop :
                  /\ asked[i].index = i
                  /\ last.log[i] = asked[i]
                  /\ Unformatted(asked[i].text)
                  /\ asked[i].text[1].kind = "file_header"
                  /\ asked[i].text = asked[1].text
           /\ Rejecting = {} => last.res.ok
           /\ Rejecting # {} =>
                  /\ ~last.res.ok
                  /\ last.res.val = <<>>
                  /\ last.res.err =
                         IF ValidatorsGiven[stop].verdict = "reject_error"
                         THEN ValidatorsGiven[stop].error
                         ELSE "ValueError: Generated code is not valid"
                  /\ CallsOf("format") = <<>>

C2_Witness ==
    /\ Generated
    /\ code_validators = Some(<<V_reject_none, V_reject>>)
    /\ code_formatters = Some(<<"BlackFormatter">>)
    /\ last.res.err = "ValueError: Generated code is not valid"
    /\ Len(last.log) = 1

\* C3: when every validator accepts, generate calls the formatters in list
\* order after all the validator calls, the first with the validated text,
\* each later one with the output of the one before, and returns the last
\* output; without formatters it returns the validated text.
C3_FormattersChained ==
    (Generated /\ last.res.ok) =>
        LET asked == CallsOf("validate")
            called == CallsOf("format")
            n == Len(FormattersGiven)
        IN /\ Len(called) = n
           /\ last.log = asked \o called
           /\ \A i \in 1..n :
                  /\ called[i].index = i
                  /\ i = 1 => /\ Unformatted(called[i].text)
                              /\ called[i].text[1].kind = "file_header"
                              /\ asked # <<>> => called[i].text = asked[1].text
                  /\ i > 1 => called[i].text =
                                  format_code(FormattersGiven[i - 1], called[i - 1].text)
           /\ n > 0 => last.res.val = format_code(FormattersGiven[n], called[n].text)
           /\ n = 0 => /\ Unformatted(last.res.val)
                       /\ last.res.val[1].kind = "file_header"
                       /\ asked # <<>> => last.res.val = asked[1].text

C3_Witness ==
    /\ Generated /\ last.res.ok
    /\ code_validators = Some(<<V_accept, V_accept>>)
    /\ code_formatters = Some(<<"ISortFormatter", "BlackFormatter">>)
    /\ Len(last.log) = 4
    /\ last.res.val[Len(last.res.val)].args = <<<<"BlackFormatter">>>>
    /\ last.res.val[Len(last.res.val) - 1].args = <<<<"ISortFormatter">>>>

\* C4: in generate_literal_model, a schema field that a rule targets and that
\* is also a key of the record is assigned the (unindented, unquoted) result
\* of the first rule targeting it, exactly once; a field of the record that
\* no rule targets is assigned the raw value, quoted when declared str.
C4_RuleWinsOverRawLookup ==
    (Called("generate_literal_model") /\ Ret.ok) =>
        \A k \in 1..Len(fn_call.seed_model_type.fields) :
            LET f == fn_call.seed_model_type.fields[k]
                at == Assigned(Ret.val.code_builder, f.name)
                raw == fn_call.parsed_source[f.name]
                rule == RulesGiven[Min(RulesFor(f.name))]
                key == rule.handlers[Len(rule.handlers)].field
            IN f.name \in DOMAIN fn_call.parsed_source =>
                 /\ Cardinality(at) = 1
                 /\ \A i \in at :
                      LET value == Ret.val.code_builder[i].args[2]
                      IN IF RulesFor(f.name) = {}
                         THEN value = IF f.annotation = "str" THEN Quoted(raw) ELSE raw
                         ELSE /\ value =
                                   unindent(MappableReferenceField_call(
                                       rule, fn_call.parsed_source).val)
                              /\ value # Quoted(raw)
                              /\ Head(value) # "\""

C4_Witness ==
    /\ Called("generate_literal_model") /\ Ret.ok
    /\ fn_call.mappable_references = Some(<<Rule_a>>)
    /\ fn_call.seed_model_type = SeedModel_a_b
    /\ "a" \in DOMAIN fn_call.parsed_source
    /\ \E i \in Assigned(Ret.val.code_builder, "a") :
           Ret.val.code_builder[i].args[2] = <<"x", "-", "x">>

\* C5: invoking a rule whose handlers have distinct keys, all present in the
\* record, substitutes at position i the value under handler i's own key,
\* passed through handler i's transform when it has one.
C5_EachHandlerReadsItsOwnKey ==
    (/\ Called("MappableReferenceField_call")
     /\ Len(fn_call.rule.handlers) >= 1
     /\ \A i, j \in 1..Len(fn_call.rule.handlers) :
            i # j => fn_call.rule.handlers[i].field # fn_call.rule.handlers[j].field
     /\ \A i \in 1..Len(fn_call.rule.handlers) :
            fn_call.rule.handlers[i].field \in DOMAIN fn_call.parsed_source)
    => Ret = format(fn_call.rule.pattern,
               [i \in 1..Len(fn_call.rule.handlers) |->
                   LET h == fn_call.rule.handlers[i]
                       v == fn_call.parsed_source[h.field]
                   IN IF IsNone(h.function_handle) THEN v
                      ELSE [n \in 1..Len(v) |-> str_upper(v[n])]])

\* C6: with require_all_fields_mapped, generate_literal_model returns a
\* blueprint with one assignment per schema field whenever a name resolves,
\* every schema field is covered by a rule targeting it or by a key of the
\* record, every rule targets a schema field and every rule can be invoked
\* on the record; with the rule list absent and with a rule list supplied.
C6_StrictSucceedsWhenCovered ==
    (/\ Called("generate_literal_model")
     /\ fn_call.require_all_fields_mapped
     /\ ~IsNone(ExpectedName)
     /\ \A f \in SchemaFields : Covered(f)
     /\ \A i \in 1..Len(RulesGiven) :
            /\ RulesGiven[i].field_name \in SchemaFields
            /\ RulesGiven[i].field_name \in fn_call.seed_model_type.attrs
            /\ MappableReferenceField_call(RulesGiven[i], fn_call.parsed_source).ok)
    => /\ Ret.ok
       /\ \A f \in SchemaFields :
              Cardinality(Assigned(Ret.val.code_builder, f)) = 1

\* C7: with require_all_fields_mapped, a resolvable name and a schema field
\* that is neither a key of the record nor the target of a rule,
\* generate_literal_model fails and the error names the first such field in
\* schema order.
C7_ErrorNamesFirstUncoveredField ==
    LET fields == fn_call.seed_model_type.fields
        uncovered == {k \in 1..Len(fields) : ~Covered(fields[k].name)}
    IN (/\ Called("generate_literal_model")
        /\ fn_call.require_all_fields_mapped
        /\ ~IsNone(ExpectedName)
        /\ uncovered # {})
       => /\ ~Ret.ok
          /\ Ret.arg = fields[Min(uncovered)].name

\* C8: generate_literal_model names the blueprint by the explicit class name
\* when one is given, otherwise by the record's value under the first hint,
\* in hint-list order, that is a key of the record; it fails with the naming
\* error exactly when there is neither; the caller's hint list is as given.
C8_NameFromFirstHint ==
    Called("generate_literal_model") =>
        /\ IsNone(ExpectedName) <=>
               (~Ret.ok /\ Ret.err = "ValueError: no class name")
        /\ Ret.ok =>
               /\ Ret.val.class_name = Get(ExpectedName)
               /\ Ret.val.sanitized_class_name = sanitize_class_name(Get(ExpectedName))
        /\ fn_call.class_name_hints = fn_call.hints_given

C8_Witness ==
    /\ Called("generate_literal_model") /\ Ret.ok
    /\ IsNone(fn_call.class_name)
    /\ fn_call.hints_given = Some(<<"abbreviation", "name">>)
    /\ {"abbreviation", "name"} \subseteq DOMAIN fn_call.parsed_source
    /\ Ret.val.class_name = S_bar
    /\ Ret.val.sanitized_class_name = <<"B", "a", "r">>

\* C9: generate_enum_like_class emits one enum entry per blueprint, in the
\* order of the blueprint list, entry i having the enum key of blueprint i's
\* original name and blueprint i's sanitized name as value; the entries
\* follow the class header and precede the subclasses accessor, the
\* discriminated union and the optional abbreviation map.
C9_EnumEntriesInBlueprintOrder ==
    Called("generate_enum_like_class") =>
        LET bps == fn_call.literal_model_blueprints
            n == Len(bps)
            code == Ret.val
        IN /\ Ret.ok
           /\ LinesOfKind(code, "enum_entry") = 2..(n + 1)
           /\ \A i \in 1..n :
                  /\ Ok(code[i + 1].args[1]) =
                         create_enum_key_from_class_name(bps[i].class_name)
                  /\ code[i + 1].args[2] = bps[i].sanitized_class_name
                  /\ code[i + 1].tabs = 1
           /\ code[1].kind = "class_header"
           /\ code[n + 2].kind = "type_all_from_subclasses"
           /\ code[n + 3].kind = "type_one_of"
           /\ Len(code) = n + 3 + (IF fn_call.render_abbreviation_map THEN 1 ELSE 0)
           /\ fn_call.render_abbreviation_map =>
                  code[n + 4].kind = "abbreviation_map"

C9_Witness ==
    /\ Called("generate_enum_like_class") /\ Ret.ok
    /\ fn_call.literal_model_blueprints =
           <<LiteralModelBlueprint(S_foo), LiteralModelBlueprint(S_9a)>>
    /\ Ret.val[2].args = <<<<"F", "O", "O">>, <<"F", "o", "o">>>>
    /\ Ret.val[3].args = <<<<"_", "9", "A">>, <<"_", "9", "a">>>>

\* C10: solve_import of a type or a ForwardClassReference returns the empty
\* string for the built-in module; for '__main__' it raises ValueError without
\* a default module name and renders the import from the default otherwise;
\* for any other module it renders the import of (module, symbol) whatever
\* the default; it raises in no other case.
C10_SolveImport ==
    (Called("solve_import") /\ fn_call.typeof.kind \in {"fwd", "type"}) =>
        LET t == fn_call.typeof
            module == IF t.kind = "fwd" THEN t.module_name ELSE t.module
            symbol == IF t.kind = "fwd" THEN t.class_name ELSE t.name
            default == fn_call.default_module_name
        IN /\ module = "builtins" => Ret = Ok(<<>>)
           /\ (module = "__main__" /\ IsNone(default)) =>
                  (~Ret.ok /\ Ret.err = "ValueError: no default module name")
           /\ (module = "__main__" /\ ~IsNone(default)) =>
                  Ret = Ok(import_statement(Get(default), symbol))
           /\ module \notin {"builtins", "__main__"} =>
                  Ret = Ok(import_statement(module, symbol))
           /\ ~Ret.ok => (module = "__main__" /\ IsNone(default))

C10_Witness ==
    /\ Called("solve_import") /\ Ret.ok
    /\ fn_call.typeof = PyType("__main__", "LocalClass")
    /\ fn_call.default_module_name = Some("pkg.generators")
    /\ Ret.val[1].args = <<<<"pkg.generators">>, <<"LocalClass">>>>

-----------------------------------------------------------------------------
\* Vocabulary of the properties of the registry.

Acquired == last.op = "GeneratorContext"
\* The registry the last operation was called on, and as it was before.
Context == contexts[last.ctx]
NoArguments == IsNone(last.code_validators) /\ IsNone(last.code_formatters)
WasInitialized ==
    /\ last.ctx \in DOMAIN last.was
    /\ initialized(last.was[last.ctx], context_class)

\* C11: the registry obtained by the first acquisition without arguments
\* after a scope was exited manages no generator and has empty validator and
\* formatter lists, whatever was added and configured inside the scope.
C11_FreshRegistryAfterExit ==
    (Acquired /\ last.after_exit /\ NoArguments) =>
        /\ Context._generators = <<>>
        /\ Context.code_validators = <<>>
        /\ Context.code_formatters = <<>>

C11_Witness ==
    /\ Acquired /\ last.after_exit /\ NoArguments
    /\ last.was[last.ctx].code_validators = <<V_reject>>
    /\ last.was[last.ctx].code_formatters = <<"BlackFormatter">>
    /\ Context.code_validators = <<>>

\* C12: there is never more than one GeneratorContext instance, every
\* acquisition returns it, and acquiring a registry that is initialized, with
\* or without arguments, leaves its generators, validators and formatters as
\* they were.
C12_SingleInstance ==
    /\ Len(contexts) <= 1
    /\ Acquired =>
          /\ \A c \in DOMAIN contexts : c = last.ctx
          /\ WasInitialized =>
                /\ Context._generators = last.was[last.ctx]._generators
                /\ Context.code_validators = last.was[last.ctx].code_validators
                /\ Context.code_formatters = last.was[last.ctx].code_formatters

C12_Witness ==
    /\ Acquired /\ WasInitialized
    /\ last.code_validators = Some(<<V_reject>>)
    /\ Context.code_validators = <<>>
    /\ Len(Context._generators) = 2

\* C18: add_generator appends one (generator, path) pair at the end;
\* remove_generator(p) removes the pairs whose generator is the object p, all
\* of them, and keeps every other pair with its path and in order; neither
\* changes the validators or the formatters, and removing a generator that
\* is not registered changes nothing.
C18_AddAppendsRemoveByIdentity ==
    /\ last.op = "add_generator" =>
          /\ Context._generators =
                 Append(last.was._generators,
                        [model_generator |-> last.g, target_path |-> last.file_name])
          /\ Context.code_validators = last.was.code_validators
          /\ Context.code_formatters = last.was.code_formatters
    /\ last.op = "remove_generator" =>
          /\ Context._generators =
                 SelectSeq(last.was._generators,
                           LAMBDA pair : pair.model_generator # last.g)
          /\ (\A i \in DOMAIN last.was._generators :
                  last.was._generators[i].model_generator # last.g)
                 => Context = last.was
          /\ Context.code_validators = last.was.code_validators
          /\ Context.code_formatters = last.was.code_formatters

C18_Witness ==
    /\ last.op = "remove_generator" /\ last.g = 1
    /\ last.was._generators =
           <<WrappedModelGenerator(1, None),
             WrappedModelGenerator(2, Some(<<"out.py">>))>>
    /\ generators[1] = generators[2]
    /\ Context._generators = <<WrappedModelGenerator(2, Some(<<"out.py">>))>>

\* The lines of a text that open the aggregate class of generator g.
AggregateHeaders(text, g) ==
    {i \in 1..Len(text) :
        /\ text[i].kind = "class_header"
        /\ text[i].args = <<<<generators[g].enum_like_class_name>>, <<>>>>}
CallsIn(log, kind) == SelectSeq(log, LAMBDA c : c.call = kind)

C14_WriteAllNoRollback ==
    last.op = "write_all" =>
        LET pairs == Context._generators
            calls == last.calls
            n == Len(calls)
        IN /\ n <= Len(pairs)
           /\ \A i \in 1..n :
                  /\ calls[i].g = pairs[i].model_generator
                  /\ calls[i].path =
                         <<last.folder,
                           IF IsNone(pairs[i].target_path)
                           THEN <<lower(generators[calls[i].g].enum_like_class_name),
                                  ".py">>
                           ELSE Get(pairs[i].target_path)>>
                  /\ i < n => calls[i].ok
                  /\ calls[i].ok =>
                        /\ calls[i].path \in DOMAIN files.content
                        /\ files.content[calls[i].path] # <<>>
                        /\ files.content[calls[i].path][1].kind = "file_header"
           /\ last.res.ok <=> (n = Len(pairs) /\ \A i \in 1..n : calls[i].ok)

\* C15: write calls generate before it opens the file: when generate fails
\* the files are as they were before the call, a file at the path keeps its
\* content and none is created; the file is closed however the call ends.
C15_GenerateBeforeOpen ==
    last.op = "write" =>
        LET at(e) == {k \in DOMAIN last.events : last.events[k] = e}
        IN /\ \A g \in at("generate"), o \in at("open") : g < o
           /\ (at("generate") # {} /\ ~last.res.ok) => files = last.files_before
           /\ at("open") # {} /\ at("generate") # {} => at("close") # {}

-----------------------------------------------------------------------------
\* More properties of the pipeline.

\* C16: the text generate assembles has at most one import line per distinct
\* referenced type, the seed model's type, the additional imports and the
\* rules' types taken together, and the import lines stand after the
\* provenance header and before the body.
C16_OneImportPerType ==
    (Generated /\ last.res.ok) =>
        LET text == last.res.val
            imports == LinesOfKind(text, "import")
        IN /\ \A i, j \in imports : i # j => text[i].args # text[j].args
           /\ \A i \in imports :
                  /\ \A h \in LinesOfKind(text, "file_header") : h < i
                  /\ \A p \in LinesOfKind(text, "preamble") : i < p
                  /\ \A c \in LinesOfKind(text, "class_header") : i < c
           /\ \A p \in LinesOfKind(text, "preamble") :
                  \A c \in LinesOfKind(text, "class_header") : p < c

\* C19: a generate call that fails returns no text and leaves the generator
\* as it was before the call, its blueprint list in particular.
C19_FailedGenerateLeavesPipeline ==
    (Generated /\ ~last.res.ok) =>
        /\ last.res.val = <<>>
        /\ Len(Self.literal_model_blueprints) = last.blueprints_before

\* The rules of the generator that target a schema field and name a key the
\* record lacks.
RulesMissingKey(self, record) ==
    LET rules == or_empty(self.mappable_references)
        schema == {self.seed_model_type.fields[k].name :
                      k \in DOMAIN self.seed_model_type.fields}
    IN {i \in DOMAIN rules :
           /\ rules[i].field_name \in schema
           /\ \E k \in DOMAIN rules[i].handlers :
                  rules[i].handlers[k].field \notin DOMAIN record}
\* The records for which a rule lacks a key, and those that can be named.
RecordsMissingKey ==
    {r \in DOMAIN Self.parsed_source :
        RulesMissingKey(Self, Self.parsed_source[r]) # {}}
Nameable(r) ==
    \E h \in DOMAIN Self.literal_class_name_hints :
        Self.literal_class_name_hints[h] \in DOMAIN Self.parsed_source[r]

\* C20: when a rule that targets a schema field names a key the record
\* lacks, invoking it raises KeyError before any transform is called, and
\* the generate run stops at that record: the records after it are not
\* synthesized, no validator or formatter runs and no text is returned.
C20_MissingKeyAbortsRun ==
    (/\ Generated
     /\ RecordsMissingKey # {}
     /\ \A r \in 1..Min(RecordsMissingKey) : Nameable(r))
    => LET r == Min(RecordsMissingKey)
           record == Self.parsed_source[r]
           rules == or_empty(Self.mappable_references)
       IN /\ ~last.res.ok
          /\ last.res.err = "KeyError"
          /\ last.res.arg \notin DOMAIN record
          /\ last.res.val = <<>>
          /\ last.log = <<>>
          /\ Len(Self.literal_model_blueprints) = last.blueprints_before + r - 1
          /\ \A i \in RulesMissingKey(Self, record) :
                 function_handle_calls(rules[i], record) = <<>>

C20_Witness ==
    /\ Generated
    /\ Self.mappable_references = Some(<<Rule_b_b>>)
    /\ Self.parsed_source = <<Rec_foo, Rec_bar>>
    /\ Self.calls = 1
    /\ ValidatorsGiven # <<>> /\ FormattersGiven # <<>>
    /\ last.res.err = "KeyError" /\ last.res.arg = "b"
    /\ Len(Self.literal_model_blueprints) = 1

-----------------------------------------------------------------------------
\* More properties of generate_literal_model.

\* The schema fields that are keys of the record, in declared order.
FieldsOfRecord ==
    SelectSeq(fn_call.seed_model_type.fields,
              LAMBDA f : f.name \in DOMAIN fn_call.parsed_source)

\* C17: without rules and with require_all_fields_mapped off, the class that
\* generate_literal_model returns assigns, in the schema's declared order,
\* exactly the schema fields that are keys of the record, once each, and no
\* other name; the value is the record's string, in double quotes when the
\* field is declared str and as it stands otherwise.
C17_RawFieldsInSchemaOrder ==
    (/\ Called("generate_literal_model") /\ Ret.ok
     /\ RulesGiven = <<>>
     /\ ~fn_call.require_all_fields_mapped)
    => LET assignments == SelectSeq(Ret.val.code_builder,
                                    LAMBDA l : l.kind = "literal_field")
       IN /\ Len(assignments) = Len(FieldsOfRecord)
          /\ \A i \in 1..Len(FieldsOfRecord) :
                 LET f == FieldsOfRecord[i]
                     raw == fn_call.parsed_source[f.name]
                 IN /\ assignments[i].args[1] = <<f.name>>
                    /\ assignments[i].args[2] =
                           IF f.annotation = "str" THEN Quoted(raw) ELSE raw
                    /\ assignments[i].tabs = 1

C17_Witness ==
    /\ Called("generate_literal_model") /\ Ret.ok
    /\ fn_call.mappable_references = None
    /\ ~fn_call.require_all_fields_mapped
    /\ fn_call.seed_model_type = SeedModel(<<F_b, F_a>>, {})
    /\ DOMAIN fn_call.parsed_source = {"name", "abbreviation", "a", "b"}
    /\ LET assignments == SelectSeq(Ret.val.code_builder,
                                    LAMBDA l : l.kind = "literal_field")
       IN /\ Len(assignments) = 2
          /\ assignments[1].args = <<<<"b">>, S_9>>
          /\ assignments[2].args = <<<<"a">>, Quoted(S_x)>>

-----------------------------------------------------------------------------
\* Properties of the rule's constructor.

\* The list given to the constructor, and its elements by type.
HandlersGiven ==
    IF IsNone(fn_call.parsed_source_keys_handlers) THEN <<>>
    ELSE Get(fn_call.parsed_source_keys_handlers)
Strings == {i \in DOMAIN HandlersGiven : HandlersGiven[i] \in {PyStr("a"), PyStr("b")}}
HandlerObjects == {i \in DOMAIN HandlersGiven : "field" \in DOMAIN HandlersGiven[i]}
Invalid == DOMAIN HandlersGiven \ (Strings \cup HandlerObjects)

\* C21: a rule built from a list of N >= 1 field names has exactly one source
\* key, the first name; a rule built from a list of N handlers keeps all N
\* in order; a rule built with no list has none; and a list holding an
\* element that is neither a field name nor a handler raises ValueError.
C21_NormalizeStopsAfterFirstName ==
    Called("MappableReferenceField") =>
        /\ (HandlersGiven # <<>> /\ Strings = DOMAIN HandlersGiven) =>
               /\ Ret.ok
               /\ parsed_source_keys(Ret.val) = <<HandlersGiven[1].v>>
        /\ HandlerObjects = DOMAIN HandlersGiven =>
               /\ Ret.ok
               /\ Ret.val.handlers = HandlersGiven
        /\ IsNone(fn_call.parsed_source_keys_handlers) =>
               /\ Ret.ok
               /\ parsed_source_keys(Ret.val) = <<>>
        /\ Invalid # {} =>
               /\ ~Ret.ok
               /\ Ret.err = "ValueError: Invalid type"

====
